---- MODULE Spec2Model ----
(***************************************************************************)
(* The favorites subsystem of the Mutual Fund API (src/app.py,             *)
(* src/validators.py): the favorites collection with its composite unique  *)
(* index, the request handlers add / remove / list / resolve, and the      *)
(* marshmallow schemas that guard the two JSON-body entry points.          *)
(*                                                                         *)
(* gunicorn runs several sync workers (src/gunicorn.conf.py:12-13); each   *)
(* handles one request at a time, and all of them share the one store.  A  *)
(* handler's store calls are the atomic steps: a handler with one store    *)
(* call is one action, add_favorite (find_one, then insert_one) is two.    *)
(* Every store call may raise.  The response a handler returns is put on   *)
(* `wire` with the request it answers, and Deliver takes it off before the *)
(* next step.                                                              *)
(***************************************************************************)
EXTENDS Integers, Sequences, FiniteSets, TLC

VARIABLES
    favorites,      \* db["favorites"]: the records, in insertion order
    stocks,         \* db["stocks"]
    fund_holdings,  \* db["fund_holdings_test"]
    nextOid,        \* how many favorites the store has taken in so far
    workers,        \* per worker: where its request stands and what it holds
    wire,           \* the response being returned (op = "none": none)
    gone,           \* triples removed and not inserted again since
    last            \* the add answered before the response on the wire, if kept

vars == <<favorites, stocks, fund_holdings, nextOid, workers, wire, gone, last>>

---------------------------------------------------------------------------
(* Bounds of the model *)

MaxInserts == 2     \* inserts into favorites over one run

(* Program constants *)

MinIdLength == 1            \* validate.Length(min=1)
MaxItemNameLength == 500    \* validate.Length(max=500)

---------------------------------------------------------------------------
(* Values *)

Workers == {"w1", "w2"}
Users == {"u1", "u2"}

StockId == "507f1f77bcf86cd799439011"   \* the hex form of a stock's ObjectId
FundKey == "INF200K01"                  \* a fund's unique_id
OtherFundKey == "INF999Z99"             \* a fund nobody can bookmark here
OrphanId == "507f1f77bcf86cd7994390ff"  \* 24 hex digits that are no stock's id
ItemIds == {StockId, FundKey}
ItemTypes == {"stock", "fund"}

Twice(s) == s \o s
X4 == Twice(Twice("x"))
X32 == Twice(Twice(Twice(X4)))
X500 == Twice(Twice(Twice(X32))) \o Twice(Twice(X32)) \o Twice(X32) \o X32
            \o Twice(Twice(X4)) \o X4
LongName == X500 \o "x"                 \* 501 characters

None == <<>>
Some(x) == <<x>>
IsSome(o) == Len(o) > 0

\* dict.get(k) / dict.get(k, default)
Get(d, k) == IF k \in DOMAIN d THEN Some(d[k]) ELSE None
GetOr(d, k, default) == IF k \in DOMAIN d THEN d[k] ELSE default
\* The test as it would be if it asked for presence only (`is not None`).
Present(o) == IsSome(o)

\* Python truthiness of an optional string: None and "" are falsy.
Truthy(o) == IsSome(o) /\ o[1] # ""

---------------------------------------------------------------------------
(* Validation layer: src/validators.py *)

\* A request body as request.get_json() meets it: kind "object" is a JSON
\* object with the members obj; kind "array" is JSON of another type, which
\* get_json returns and the schema refuses; kind "malformed" is a body
\* get_json cannot parse, for which it raises BadRequest.
JsonObject(obj) == [kind |-> "object", obj |-> obj]
NotAnObject == [kind |-> "array", obj |-> <<>>]
Malformed == [kind |-> "malformed", obj |-> <<>>]
NoBody == [kind |-> "none", obj |-> <<>>]

\* fields.Str(required=..., validate=Length(min=..., max=...) | OneOf(...))
StrField(required, min, max, oneOf) ==
    [required |-> required, min |-> min, max |-> max, oneOf |-> oneOf]

\* The add schema as it would be with itemType left free.
AddFavoriteSchemaAnyType ==
    [userId   |-> StrField(TRUE, Some(MinIdLength), None, None),
     itemId   |-> StrField(TRUE, Some(MinIdLength), None, None),
     itemType |-> StrField(TRUE, None, None, None),
     itemName |-> StrField(FALSE, None, Some(MaxItemNameLength), None)]

\* The add schema as it would be with userId's length left unchecked.
AddFavoriteSchemaAnyUser ==
    [userId   |-> StrField(TRUE, None, None, None),
     itemId   |-> StrField(TRUE, Some(MinIdLength), None, None),
     itemType |-> StrField(TRUE, None, None, Some({"stock", "fund"})),
     itemName |-> StrField(FALSE, None, Some(MaxItemNameLength), None)]

AddFavoriteSchema ==
    [userId   |-> StrField(TRUE, Some(MinIdLength), None, None),
     itemId   |-> StrField(TRUE, Some(MinIdLength), None, None),
     itemType |-> StrField(TRUE, None, None, Some({"stock", "fund"})),
     itemName |-> StrField(FALSE, None, Some(MaxItemNameLength), None)]

RemoveFavoriteSchema ==
    [userId   |-> StrField(TRUE, Some(MinIdLength), None, None),
     itemId   |-> StrField(TRUE, Some(MinIdLength), None, None),
     itemType |-> StrField(TRUE, None, None, Some({"stock", "fund"}))]

\* The messages marshmallow reports for one member of the body.
FieldErrors(field, value) ==
    IF ~IsSome(value)
    THEN IF field.required THEN <<"Missing data for required field.">> ELSE <<>>
    ELSE IF IsSome(field.min) /\ Len(value[1]) < field.min[1]
         THEN <<"Shorter than minimum length 1.">>
    ELSE IF IsSome(field.max) /\ Len(value[1]) > field.max[1]
         THEN <<"Longer than maximum length 500.">>
    ELSE IF IsSome(field.oneOf) /\ value[1] \notin field.oneOf[1]
         THEN <<"Must be one of: stock, fund.">>
    ELSE <<>>

\* schema.load(data): the loaded members, or the messages per member.  A
\* body that is no mapping is refused whole; a member the schema does not
\* declare is refused (marshmallow's default, unknown = RAISE).
SchemaLoad(schema, data) ==
    IF data.kind # "object"
    THEN [validated |-> <<>>, errors |-> [k \in {"_schema"} |-> <<"Invalid input type.">>]]
    ELSE LET obj == data.obj
             bad == {k \in DOMAIN schema : FieldErrors(schema[k], Get(obj, k)) # <<>>}
             unknown == DOMAIN obj \ DOMAIN schema
         IN  [validated |-> [k \in DOMAIN obj \cap DOMAIN schema |-> obj[k]],
              errors |-> [k \in bad \cup unknown |->
                            IF k \in unknown THEN <<"Unknown field.">>
                            ELSE FieldErrors(schema[k], Get(obj, k))]]

\* (validated, None) or (None, err.messages)
validate_request_data(schema_class, data) ==
    LET loaded == SchemaLoad(schema_class, data)
    IN  IF DOMAIN loaded.errors = {}
        THEN [validated |-> Some(loaded.validated), errors |-> None]
        ELSE [validated |-> None, errors |-> Some(loaded.errors)]

---------------------------------------------------------------------------
(* The envelope: make_response, with the HTTP status the handler returns *)

make_response(status, message, records, count, data) ==
    [status |-> status, message |-> message,
     records |-> records, count |-> count, data |-> data]

\* `return make_response(...), code`; a bare `return make_response(...)` is 200.
Http(code, envelope) ==
    [code |-> code, status |-> envelope.status, message |-> envelope.message,
     records |-> envelope.records, count |-> envelope.count, data |-> envelope.data]

\* str(e) of the exceptions the handlers catch
StrOf(exc) ==
    CASE exc = "StoreError" -> "store unavailable"
      [] exc = "DuplicateKeyError" -> "E11000 duplicate key error collection: favorites"
      [] exc = "BadRequest" -> "400 Bad Request: The browser (or proxy) sent a request that this server could not understand."
      [] OTHER -> exc

---------------------------------------------------------------------------
(* The document store: the collections and the pymongo calls on them *)

\* Document ids.  An ObjectId wraps 24 hex digits and str() gives them back;
\* a plain string is another type and never equals an ObjectId.
Oid(hex) == [type |-> "ObjectId", v |-> hex]
Str(s) == [type |-> "str", v |-> s]
str(id) == id.v

\* The strings of this model that consist of hex digits only.
HexStrings == {StockId, OrphanId, "cafe"}
\* ObjectId(s) accepts s iff it is 24 hex digits, and raises InvalidId otherwise.
IsObjectIdString(s) == Len(s) = 24 /\ s \in HexStrings

\* datetime.now(UTC) as the n-th favorite is stored: time passes between any
\* two inserts, so each reads a later clock than the one before.
Clock(n) == n

\* The n-th id the store assigns to a favorite.
Digits == <<"1", "2", "3", "4", "5", "6", "7", "8", "9">>
AssignedOid(n) == Oid("65f1c0de00000000000000a" \o Digits[n])

\* A filter that would leave userId out of the comparison.
MatchesButUser(doc, query) ==
    \A k \in DOMAIN query \ {"userId"} : k \in DOMAIN doc /\ doc[k] = query[k]

\* A filter that would leave itemType out of the comparison.
MatchesButType(doc, query) ==
    \A k \in DOMAIN query \ {"itemType"} : k \in DOMAIN doc /\ doc[k] = query[k]

\* A filter {k: v, ...}: every key of the filter equals the document's.
Matches(doc, query) == \A k \in DOMAIN query : k \in DOMAIN doc /\ doc[k] = query[k]

find(coll, query) == SelectSeq(coll, LAMBDA d : Matches(d, query))

\* {key: {"$in": values}}
find_in(coll, key, values) == SelectSeq(coll, LAMBDA d : d[key] \in values)

\* find_one as it would act with a filter on the user and the item only.
find_one_by_item(coll, query) ==
    LET found == SelectSeq(coll, LAMBDA d : \A k \in DOMAIN query \ {"itemType"} :
                                               k \in DOMAIN d /\ d[k] = query[k])
    IN  IF Len(found) = 0 THEN None ELSE Some(found[1])

\* find_one as it would act if the filter never matched.
find_one_blind(coll, query) == None

find_one(coll, query) ==
    LET found == find(coll, query)
    IN  IF Len(found) = 0 THEN None ELSE Some(found[1])

\* favorites.create_index([userId, itemId, itemType], unique=True)
UniqueIndex == {"userId", "itemId", "itemType"}

\* insert_one as it would act without the unique index.
insert_one_unindexed(coll, doc) == [raised |-> None, coll |-> Append(coll, doc)]

\* insert_one under the unique index: DuplicateKeyError, or the document stored.
insert_one(coll, doc) ==
    IF \E i \in 1..Len(coll) : \A k \in UniqueIndex : coll[i][k] = doc[k]
    THEN [raised |-> Some("DuplicateKeyError"), coll |-> coll]
    ELSE [raised |-> None, coll |-> Append(coll, doc)]

\* delete_one as it would act if it reported the match and deleted nothing.
delete_one_kept(coll, query) ==
    [deleted_count |-> IF \E i \in 1..Len(coll) : \A k \in DOMAIN query : coll[i][k] = query[k]
                       THEN 1 ELSE 0,
     coll |-> coll]

\* delete_one: the first document the filter matches goes, if there is one.
delete_one(coll, query) ==
    LET hits == {i \in 1..Len(coll) : Matches(coll[i], query)}
    IN  IF hits = {}
        THEN [deleted_count |-> 0, coll |-> coll]
        ELSE LET first == CHOOSE i \in hits : \A j \in hits : i <= j
             IN  [deleted_count |-> 1,
                  coll |-> [j \in 1..(Len(coll) - 1) |->
                              IF j < first THEN coll[j] ELSE coll[j + 1]]]

Map(seq, F(_)) == [i \in 1..Len(seq) |-> F(seq[i])]
Range(seq) == {seq[i] : i \in 1..Len(seq)}
Triple(u, i, t) == [userId |-> u, itemId |-> i, itemType |-> t]

---------------------------------------------------------------------------
(* Favorites API: src/app.py:444-638.  Each handler is an operator from the
   request, the store and the fate of its store calls (up: the call goes
   through; not up: it raises) to what it returns and leaves in the store. *)

\* What a handler (or one step of it) yields: the collection it leaves, the
\* response it returns (None while the request goes on), the exceptions raised
\* on the way, and the number of store calls made.
Outcome(favs, resp, raised, calls) ==
    [favorites |-> favs, resp |-> resp, raised |-> raised, calls |-> calls]

Ok(message, records, count, data) ==
    Some(Http(200, make_response("success", message, records, count, data)))
Error(code, message) ==
    Some(Http(code, make_response("error", message, None, None, None)))

\* The same steps as they would be if an add of a stored triple refreshed the
\* record (an upsert of itemName and createdAt) before answering.
add_favorite_find_upsert(favs, body, up) ==
    IF body.kind = "malformed"
    THEN Outcome(favs, Error(500, StrOf("BadRequest")), {"BadRequest"}, 0)
    ELSE LET v == validate_request_data(AddFavoriteSchema, body)
         IN  IF IsSome(v.errors)
             THEN Outcome(favs,
                          Some(Http(400, make_response("error", "Validation error",
                                                       None, None, v.errors))),
                          {}, 0)
             ELSE IF ~up
             THEN Outcome(favs, Error(500, StrOf("StoreError")), {"StoreError"}, 1)
             ELSE LET d == v.validated[1]
                      tr == Triple(d.userId, d.itemId, d.itemType)
                      existing == find_one(favs, tr)
                      refreshed == [k \in 1..Len(favs) |->
                          IF Matches(favs[k], tr)
                          THEN [favs[k] EXCEPT !.itemName = GetOr(d, "itemName", ""),
                                               !.createdAt = Clock(Len(favs) + 1)]
                          ELSE favs[k]]
                  IN  IF IsSome(existing)
                      THEN Outcome(refreshed, Ok("Already in favorites", None, None, None),
                                   {}, 2)
                      ELSE Outcome(favs, None, {}, 1)

\* add_favorite up to the existence check (lines 482-504)
add_favorite_find(favs, body, up) ==
    IF body.kind = "malformed"
    THEN Outcome(favs, Error(500, StrOf("BadRequest")), {"BadRequest"}, 0)
    ELSE LET v == validate_request_data(AddFavoriteSchema, body)
         IN  IF IsSome(v.errors)
             THEN Outcome(favs,
                          Some(Http(400, make_response("error", "Validation error",
                                                       None, None, v.errors))),
                          {}, 0)
             ELSE IF ~up
             THEN Outcome(favs, Error(500, StrOf("StoreError")), {"StoreError"}, 1)
             ELSE LET d == v.validated[1]
                      existing == find_one(favs, Triple(d.userId, d.itemId, d.itemType))
                  IN  IF IsSome(existing)
                      THEN Outcome(favs, Ok("Already in favorites", None, None, None), {}, 1)
                      ELSE Outcome(favs, None, {}, 1)

\* add_favorite from the new record to the response (lines 506-522)
add_favorite_insert(favs, body, oid, time, up) ==
    LET d == validate_request_data(AddFavoriteSchema, body).validated[1]
        fav == [userId |-> d.userId, itemId |-> d.itemId, itemType |-> d.itemType,
                itemName |-> GetOr(d, "itemName", ""), createdAt |-> time]
        stored == [k \in DOMAIN fav \cup {"_id"} |-> IF k = "_id" THEN oid ELSE fav[k]]
        result == insert_one(favs, stored)
    IN  IF ~up
        THEN Outcome(favs, Error(500, StrOf("StoreError")), {"StoreError"}, 2)
        ELSE IF IsSome(result.raised)
        THEN Outcome(favs, Error(500, StrOf(result.raised[1])), {result.raised[1]}, 2)
        ELSE Outcome(result.coll,
                     Ok("Added", None, None,
                        Some([k \in DOMAIN stored |->
                                IF k = "_id" THEN Str(str(oid)) ELSE stored[k]])),
                     {}, 2)

\* The handler as it would act if it did not look at deleted_count.
remove_favorite_unchecked(favs, item_id, args, up) ==
    LET user_id == Get(args, "userId")
        item_type == Get(args, "type")
    IN  IF ~Truthy(user_id) \/ ~Truthy(item_type)
        THEN Outcome(favs, Error(400, "userId and type required"), {}, 0)
        ELSE IF ~up
        THEN Outcome(favs, Error(200, StrOf("StoreError")), {"StoreError"}, 1)
        ELSE Outcome(delete_one(favs, Triple(user_id[1], item_id, item_type[1])).coll,
                     Ok("Removed", None, None, None), {}, 1)

\* DELETE /api/favorites/<item_id> (lines 526-547)
remove_favorite(favs, item_id, args, up) ==
    LET user_id == Get(args, "userId")
        item_type == Get(args, "type")
    IN  IF ~Truthy(user_id) \/ ~Truthy(item_type)
        THEN Outcome(favs, Error(400, "userId and type required"), {}, 0)
        ELSE IF ~up
        THEN Outcome(favs, Error(200, StrOf("StoreError")), {"StoreError"}, 1)
        ELSE LET result == delete_one(favs, Triple(user_id[1], item_id, item_type[1]))
             IN  IF result.deleted_count = 0
                 THEN Outcome(favs, Error(404, "Favorite not found"), {}, 1)
                 ELSE Outcome(result.coll, Ok("Removed", None, None, None), {}, 1)

\* POST /api/favorites/rpc/remove (lines 555-586)
remove_favorite_rpc(favs, body, up) ==
    IF body.kind = "malformed"
    THEN Outcome(favs, Error(500, StrOf("BadRequest")), {"BadRequest"}, 0)
    ELSE LET v == validate_request_data(RemoveFavoriteSchema, body)
         IN  IF IsSome(v.errors)
             THEN Outcome(favs,
                          Some(Http(400, make_response("error", "Validation error",
                                                       None, None, v.errors))),
                          {}, 0)
             ELSE IF ~up
             THEN Outcome(favs, Error(500, StrOf("StoreError")), {"StoreError"}, 1)
             ELSE LET d == v.validated[1]
                      result == delete_one(favs, Triple(d.userId, d.itemId, d.itemType))
                  IN  IF result.deleted_count = 0
                      THEN Outcome(favs, Error(404, "Favorite not found"), {}, 1)
                      ELSE Outcome(result.coll, Ok("Removed", None, None, None), {}, 1)

\* A list entry that would drop the display name.
EntryUnnamed(f) == [id |-> f.itemId, name |-> ""]

Entry(f) == [id |-> f.itemId, name |-> GetOr(f, "itemName", "")]

\* GET /api/favorites (lines 444-476)
get_favorites(favs, args, up) ==
    LET user_id == Get(args, "userId")
        item_type == Get(args, "type")
    IN  IF ~Truthy(user_id)
        THEN Outcome(favs, Error(400, "userId required"), {}, 0)
        ELSE IF ~up
        THEN Outcome(favs, Error(200, StrOf("StoreError")), {"StoreError"}, 1)
        ELSE LET query == IF Truthy(item_type)
                          THEN [userId |-> user_id[1], itemType |-> item_type[1]]
                          ELSE [userId |-> user_id[1]]
                 found == find(favs, query)
                 stocks_list == Map(SelectSeq(found, LAMBDA f : f.itemType = "stock"), Entry)
                 funds_list == Map(SelectSeq(found, LAMBDA f : f.itemType # "stock"), Entry)
             IN  Outcome(favs,
                         Ok("Favorites fetched", None, Some(Len(found)),
                            Some([stocks |-> stocks_list, funds |-> funds_list])),
                         {}, 1)

\* The conversion as it would be if it were left out.
WithNativeId(doc) == doc

WithStrId(doc) == [k \in DOMAIN doc |-> IF k = "_id" THEN Str(str(doc[k])) ELSE doc[k]]

\* The handler as it would act with a fallback for each id on its own: an id
\* that parses is looked up as ObjectId, one that does not as raw string.
get_favorite_stocks_per_id(favs, stks, args, up) ==
    LET user_id == Get(args, "userId")
        ids == Map(find(favs, [userId |-> user_id[1], itemType |-> "stock"]),
                   LAMBDA f : f.itemId)
        parsed == \A i \in 1..Len(ids) : IsObjectIdString(ids[i])
        mixed == {IF IsObjectIdString(ids[i]) THEN Oid(ids[i]) ELSE Str(ids[i]) :
                     i \in 1..Len(ids)}
        results == find_in(stks, "_id", mixed)
    IN  IF ~Truthy(user_id)
        THEN Outcome(favs, Error(400, "userId required"), {}, 0)
        ELSE IF ~up[1]
        THEN Outcome(favs, Error(200, StrOf("StoreError")), {"StoreError"}, 1)
        ELSE IF Len(ids) = 0
        THEN Outcome(favs, Ok("No favorites", Some(<<>>), Some(0), None), {}, 1)
        ELSE IF ~up[2]
        THEN Outcome(favs, Error(200, StrOf("StoreError")), {"StoreError"}, 2)
        ELSE Outcome(favs,
                     Ok("Favorite stocks fetched", Some(Map(results, WithStrId)),
                        Some(Len(results)), None),
                     IF parsed THEN {} ELSE {"InvalidId"}, 2)

\* GET /api/favorites/stocks (lines 589-614); up[1] is favorites.find, up[2]
\* the lookup by ObjectId, up[3] the lookup by raw string.
get_favorite_stocks(favs, stks, args, up) ==
    LET user_id == Get(args, "userId")
        ids == Map(find(favs, [userId |-> user_id[1], itemType |-> "stock"]),
                   LAMBDA f : f.itemId)
        parsed == \A i \in 1..Len(ids) : IsObjectIdString(ids[i])
        obj_ids == {Oid(ids[i]) : i \in 1..Len(ids)}
        raw_ids == {Str(ids[i]) : i \in 1..Len(ids)}
        inner == (IF parsed THEN {} ELSE {"InvalidId"})
                    \cup (IF parsed /\ ~up[2] THEN {"StoreError"} ELSE {})
        Fetched(results, raised, calls) ==
            Outcome(favs,
                    Ok("Favorite stocks fetched", Some(Map(results, WithStrId)),
                       Some(Len(results)), None),
                    raised, calls)
    IN  IF ~Truthy(user_id)
        THEN Outcome(favs, Error(400, "userId required"), {}, 0)
        ELSE IF ~up[1]
        THEN Outcome(favs, Error(200, StrOf("StoreError")), {"StoreError"}, 1)
        ELSE IF Len(ids) = 0
        THEN Outcome(favs, Ok("No favorites", Some(<<>>), Some(0), None), {}, 1)
        ELSE IF parsed /\ up[2]
        THEN Fetched(find_in(stks, "_id", obj_ids), {}, 2)
        ELSE IF ~up[3]
        THEN Outcome(favs, Error(200, StrOf("StoreError")), inner \cup {"StoreError"},
                     IF parsed THEN 3 ELSE 2)
        ELSE Fetched(find_in(stks, "_id", raw_ids), inner, IF parsed THEN 3 ELSE 2)

\* GET /api/favorites/funds (lines 617-638); up[1] is favorites.find, up[2]
\* fund_holdings.find.
get_favorite_funds(favs, holdings, args, up) ==
    LET user_id == Get(args, "userId")
        fund_ids == Map(find(favs, [userId |-> user_id[1], itemType |-> "fund"]),
                        LAMBDA f : f.itemId)
        results == find_in(holdings, "unique_id", Range(fund_ids))
    IN  IF ~Truthy(user_id)
        THEN Outcome(favs, Error(400, "userId required"), {}, 0)
        ELSE IF ~up[1]
        THEN Outcome(favs, Error(200, StrOf("StoreError")), {"StoreError"}, 1)
        ELSE IF Len(fund_ids) = 0
        THEN Outcome(favs, Ok("No favorites", Some(<<>>), Some(0), None), {}, 1)
        ELSE IF ~up[2]
        THEN Outcome(favs, Error(200, StrOf("StoreError")), {"StoreError"}, 2)
        ELSE Outcome(favs,
                     Ok("Favorite funds fetched", Some(Map(results, WithStrId)),
                        Some(Len(results)), None),
                     {}, 2)

---------------------------------------------------------------------------
(* Requests *)

Absent == "<absent>"    \* marks a member left out of a body or a query string

\* The JSON object with the members that are not Absent.
Body(u, i, t, n) ==
    LET all == [userId |-> u, itemId |-> i, itemType |-> t, itemName |-> n]
    IN  JsonObject([k \in {x \in DOMAIN all : all[x] # Absent} |-> all[k]])

\* The query string ?userId=u&type=t
Query(u, t) ==
    LET all == [userId |-> u, type |-> t]
    IN  [k \in {x \in DOMAIN all : all[x] # Absent} |-> all[k]]

\* Well-formed requests of the users U, with the display names N.
Inputs(U, N) ==
    [add    |-> {Body(u, i, t, n) : u \in U, i \in ItemIds, t \in ItemTypes, n \in N},
     remove |-> {Body(u, i, t, Absent) : u \in U, i \in ItemIds, t \in ItemTypes},
     path   |-> ItemIds,
     delete |-> {Query(u, t) : u \in U, t \in ItemTypes},
     list   |-> {Query(u, t) : u \in U, t \in ItemTypes \cup {Absent}},
     user   |-> {Query(u, Absent) : u \in U}]

\* The requests of one user over the ids a stock favorite can carry: a
\* stock's id, well-formed digits of no stock, and a key that is no ObjectId.
StockItemIds == {StockId, OrphanId, FundKey}
StockInputs ==
    [add    |-> {Body("u1", i, t, Absent) : i \in StockItemIds, t \in ItemTypes},
     remove |-> {Body("u1", i, t, Absent) : i \in StockItemIds, t \in ItemTypes},
     path   |-> StockItemIds,
     delete |-> {Query("u1", t) : t \in ItemTypes},
     list   |-> {Query("u1", t) : t \in ItemTypes \cup {Absent}},
     user   |-> {Query("u1", Absent)}]

\* Any request of one user, well-formed or not.
AnyUser == {"u1", Absent, ""}
AnyItem == {StockId, Absent, ""}
AnyType == ItemTypes \cup {Absent, "", "bond"}
AnyName == {Absent, "Acme", LongName}
AnyInputs ==
    [add    |-> {Body(u, i, t, n) : u \in AnyUser, i \in AnyItem, t \in AnyType,
                                    n \in AnyName} \cup {NotAnObject, Malformed},
     remove |-> {Body(u, i, t, n) : u \in AnyUser, i \in AnyItem, t \in AnyType,
                                    n \in {Absent, "Acme"}} \cup {NotAnObject, Malformed},
     path   |-> ItemIds,
     delete |-> {Query(u, t) : u \in AnyUser, t \in AnyType},
     list   |-> {Query(u, t) : u \in AnyUser, t \in AnyType},
     user   |-> {Query(u, Absent) : u \in AnyUser}]

\* The triple a request names, when it names one.
TripleOfBody(body) ==
    IF {"userId", "itemId", "itemType"} \subseteq DOMAIN body.obj
    THEN Some(Triple(body.obj.userId, body.obj.itemId, body.obj.itemType))
    ELSE None
TripleOfDelete(item_id, args) ==
    IF {"userId", "type"} \subseteq DOMAIN args
    THEN Some(Triple(args.userId, item_id, args.type))
    ELSE None

\* The positions of the records of a collection that carry a triple.
Holding(favs, tr) ==
    {k \in 1..Len(favs) : /\ favs[k].userId = tr.userId
                          /\ favs[k].itemId = tr.itemId
                          /\ favs[k].itemType = tr.itemType}
\* How many records carry the triple a request names as the request arrives.
Before(favs, triple) == IF IsSome(triple) THEN Cardinality(Holding(favs, triple[1])) ELSE 0

---------------------------------------------------------------------------
(* The state machine *)

Idle == [pc |-> "idle", op |-> "none", body |-> NoBody, args |-> <<>>, item_id |-> "",
         before |-> 0]

NoWire ==
    [op |-> "none", body |-> NoBody, args |-> <<>>, item_id |-> "",
     resp |-> Http(0, make_response("", "", None, None, None)),
     raised |-> {}, calls |-> 0, before |-> 0]

\* The collections the favorites resolve against; the favorites API only reads them.
\* One stock under an ObjectId, and one stored under a plain string _id that
\* spells the same digits (what the raw-string lookup of line 606 is for).
StockDocs ==
    <<[_id |-> Oid(StockId), name |-> "Test Stock", symbol |-> "TEST"],
      [_id |-> Str(StockId), name |-> "Imported Stock", symbol |-> "IMPT"]>>
FundDocs ==
    <<[_id |-> Oid("65f1c0de00000000000000f1"), unique_id |-> FundKey, date |-> "2024-01-31"],
      [_id |-> Oid("65f1c0de00000000000000f2"), unique_id |-> FundKey, date |-> "2024-02-29"],
      [_id |-> Oid("65f1c0de00000000000000f3"), unique_id |-> OtherFundKey, date |-> "2024-02-29"]>>

Init ==
    /\ favorites = <<>>
    /\ stocks = StockDocs
    /\ fund_holdings = FundDocs
    /\ nextOid = 0
    /\ workers = [w \in Workers |-> Idle]
    /\ wire = NoWire
    /\ gone = {}
    /\ last = NoWire

Quiet == wire.op = "none"

\* The handler returns: its response goes on the wire.
Respond(op, body, args, item_id, out, before) ==
    wire' = [op |-> op, body |-> body, args |-> args, item_id |-> item_id,
             resp |-> out.resp[1], raised |-> out.raised, calls |-> out.calls,
             before |-> before]

\* POST /api/favorites, first step: get_json, validation, find_one.
AddFavoriteFind(w, op, body, up) ==
    /\ Quiet
    /\ workers[w].pc = "idle"
    /\ LET out == add_favorite_find(favorites, body, up)
           before == Before(favorites, TripleOfBody(body))
       IN  /\ favorites' = out.favorites
           /\ IF IsSome(out.resp)
              THEN /\ Respond(op, body, <<>>, "", out, before)
                   /\ UNCHANGED workers
              ELSE /\ nextOid + Cardinality({x \in Workers : workers[x].pc = "insert"})
                          < MaxInserts
                   /\ workers' = [workers EXCEPT ![w] =
                                    [pc |-> "insert", op |-> op, body |-> body,
                                     args |-> <<>>, item_id |-> "",
                                     before |-> before]]
                   /\ UNCHANGED wire
    /\ UNCHANGED <<stocks, fund_holdings, nextOid, gone, last>>

\* POST /api/favorites, second step: insert_one and the response.
AddFavoriteInsert(w, up) ==
    /\ Quiet
    /\ workers[w].pc = "insert"
    /\ LET body == workers[w].body
           out == add_favorite_insert(favorites, body, AssignedOid(nextOid + 1),
                                      Clock(nextOid + 1), up)
           stored == Len(out.favorites) > Len(favorites)
       IN  /\ favorites' = out.favorites
           /\ nextOid' = IF stored THEN nextOid + 1 ELSE nextOid
           /\ gone' = IF stored THEN gone \ {TripleOfBody(body)[1]} ELSE gone
           /\ Respond(workers[w].op, body, <<>>, "", out, workers[w].before)
    /\ workers' = [workers EXCEPT ![w] = Idle]
    /\ UNCHANGED <<stocks, fund_holdings, last>>

\* POST /api/favorites/rpc/add: add_favorite_rpc returns add_favorite().
AddFavoriteRpc(w, body, up) == AddFavoriteFind(w, "add_rpc", body, up)

\* A handler that is one step: it answers and leaves the collection out.favorites.
Answer(w, op, body, args, item_id, out, triple) ==
    /\ Quiet
    /\ workers[w].pc = "idle"
    /\ favorites' = out.favorites
    /\ gone' = IF out.resp[1].code = 200 /\ out.resp[1].message = "Removed"
               THEN gone \cup {triple[1]} ELSE gone
    /\ Respond(op, body, args, item_id, out, Before(favorites, triple))
    /\ UNCHANGED <<stocks, fund_holdings, nextOid, workers, last>>

RemoveFavorite(w, item_id, args, up) ==
    Answer(w, "remove", NoBody, args, item_id,
           remove_favorite(favorites, item_id, args, up), TripleOfDelete(item_id, args))

RemoveFavoriteRpc(w, body, up) ==
    Answer(w, "remove_rpc", body, <<>>, "",
           remove_favorite_rpc(favorites, body, up), TripleOfBody(body))

GetFavorites(w, args, up) ==
    Answer(w, "list", NoBody, args, "", get_favorites(favorites, args, up), None)

GetFavoriteStocks(w, args, up) ==
    Answer(w, "stocks", NoBody, args, "",
           get_favorite_stocks(favorites, stocks, args, up), None)

GetFavoriteFunds(w, args, up) ==
    Answer(w, "funds", NoBody, args, "",
           get_favorite_funds(favorites, fund_holdings, args, up), None)

\* A remove taken in two steps, for the interleavings of requests in flight:
\* up to the store call (the parameters or the body are read and checked; a
\* request refused there is answered at once) ...
RemoveBegin(w, op, body, args, item_id, out, triple) ==
    /\ Quiet
    /\ workers[w].pc = "idle"
    /\ IF out.calls = 0
       THEN /\ Respond(op, body, args, item_id, out, Before(favorites, triple))
            /\ UNCHANGED workers
       ELSE /\ workers' = [workers EXCEPT ![w] =
                             [pc |-> "delete", op |-> op, body |-> body, args |-> args,
                              item_id |-> item_id, before |-> Before(favorites, triple)]]
            /\ UNCHANGED wire
    /\ UNCHANGED <<favorites, stocks, fund_holdings, nextOid, gone, last>>

RemoveFavoriteBegin(w, item_id, args) ==
    RemoveBegin(w, "remove", NoBody, args, item_id,
                remove_favorite(favorites, item_id, args, TRUE),
                TripleOfDelete(item_id, args))

RemoveFavoriteRpcBegin(w, body) ==
    RemoveBegin(w, "remove_rpc", body, <<>>, "",
                remove_favorite_rpc(favorites, body, TRUE), TripleOfBody(body))

\* ... and delete_one, one atomic call of the store, with the response.
RemoveDelete(w, up) ==
    /\ Quiet
    /\ workers[w].pc = "delete"
    /\ LET r == workers[w]
           out == IF r.op = "remove"
                  THEN remove_favorite(favorites, r.item_id, r.args, up)
                  ELSE remove_favorite_rpc(favorites, r.body, up)
           triple == IF r.op = "remove" THEN TripleOfDelete(r.item_id, r.args)
                     ELSE TripleOfBody(r.body)
       IN  /\ favorites' = out.favorites
           /\ gone' = IF out.resp[1].code = 200 /\ out.resp[1].message = "Removed"
                      THEN gone \cup {triple[1]} ELSE gone
           /\ Respond(r.op, r.body, r.args, r.item_id, out, r.before)
    /\ workers' = [workers EXCEPT ![w] = Idle]
    /\ UNCHANGED <<stocks, fund_holdings, nextOid, last>>

\* The response leaves the wire.
Deliver ==
    /\ ~Quiet
    /\ wire' = NoWire
    /\ UNCHANGED <<favorites, stocks, fund_holdings, nextOid, workers, gone, last>>

\* The same, keeping the response for the next one to be compared with.
DeliverLogged ==
    /\ ~Quiet
    /\ wire' = NoWire
    /\ last' = wire
    /\ UNCHANGED <<favorites, stocks, fund_holdings, nextOid, workers, gone>>

\* Worker w takes one step on some request drawn from `in`.
Serve(w, in) ==
    \/ \E body \in in.add, up \in BOOLEAN : AddFavoriteFind(w, "add", body, up)
    \/ \E up \in BOOLEAN : AddFavoriteInsert(w, up)
    \/ \E item_id \in in.path, args \in in.delete, up \in BOOLEAN :
          RemoveFavorite(w, item_id, args, up)
    \/ \E body \in in.remove, up \in BOOLEAN : RemoveFavoriteRpc(w, body, up)
    \/ \E args \in in.list, up \in BOOLEAN : GetFavorites(w, args, up)
    \/ \E args \in in.user, up \in [1..3 -> BOOLEAN] : GetFavoriteStocks(w, args, up)
    \/ \E args \in in.user, up \in [1..2 -> BOOLEAN] : GetFavoriteFunds(w, args, up)

\* Concurrent workers serving the requests the client application sends.
Next ==
    \/ \E w \in Workers : Serve(w, Inputs(Users, {Absent}))
    \/ Deliver

Spec == Init /\ [][Next]_vars

\* One worker: the requests are served one after the other.
NextSeq ==
    \/ Serve("w1", Inputs(Users, {Absent, "Acme"}))
    \/ Deliver

SpecSeq == Init /\ [][NextSeq]_vars

\* One worker and one user; the response to an add is kept for the next one.
NextTwice ==
    \/ Serve("w1", Inputs({"u1"}, {Absent}))
    \/ DeliverLogged

SpecTwice == Init /\ [][NextTwice]_vars

\* One worker serving any request, well-formed or not, on either add route.
NextAny ==
    \/ Serve("w1", AnyInputs)
    \/ \E body \in AnyInputs.add, up \in BOOLEAN : AddFavoriteRpc("w1", body, up)
    \/ Deliver

SpecAny == Init /\ [][NextAny]_vars

\* One worker and one user bookmarking stocks under every kind of id.
NextStocks ==
    \/ Serve("w1", StockInputs)
    \/ Deliver

SpecStocks == Init /\ [][NextStocks]_vars

\* Two workers, one user and one item under both types, the removes taken in
\* two steps, each response kept for the next one to be compared with.
RemoveInputs ==
    [add    |-> {Body("u1", StockId, t, Absent) : t \in ItemTypes},
     path   |-> {StockId}]
RemoveBodies == {Body("u1", StockId, t, Absent) : t \in ItemTypes \cup {"bond"}}
RemoveQueries == {Query("u1", t) : t \in ItemTypes \cup {Absent}}
NextRemoves ==
    \/ \E w \in Workers :
          \/ \E body \in RemoveInputs.add, up \in BOOLEAN : AddFavoriteFind(w, "add", body, up)
          \/ \E up \in BOOLEAN : AddFavoriteInsert(w, up)
          \/ \E item_id \in RemoveInputs.path, args \in RemoveQueries :
                RemoveFavoriteBegin(w, item_id, args)
          \/ \E body \in RemoveBodies : RemoveFavoriteRpcBegin(w, body)
          \/ \E up \in BOOLEAN : RemoveDelete(w, up)
    \/ DeliverLogged

SpecRemoves == Init /\ [][NextRemoves]_vars

---------------------------------------------------------------------------
(* Properties *)

Triples == {Triple(u, i, t) : u \in Users, i \in ItemIds, t \in ItemTypes}
Responded == wire.op # "none"
IsAdd(r) == r.op \in {"add", "add_rpc"}
IsRemove(r) == r.op \in {"remove", "remove_rpc"}
\* No store call of the request raised a store failure.
StoreUp(r) == "StoreError" \notin r.raised
Says(r, code, status, message) ==
    r.resp.code = code /\ r.resp.status = status /\ r.resp.message = message
\* The triple the answered request names.
Named(r) == IF r.op = "remove" THEN TripleOfDelete(r.item_id, r.args) ELSE TripleOfBody(r.body)
Names(r, tr) == Named(r) = Some(tr)

\* What the schemas refuse, member by member: userId or itemId missing or
\* empty, itemType other than "stock" and "fund", itemName (of an add) longer
\* than 500 characters.
RefusedMembers(r) ==
    LET obj == r.body.obj
    IN  {k \in {"userId", "itemId"} : k \notin DOMAIN obj \/ obj[k] = ""}
        \cup {k \in {"itemType"} : k \notin DOMAIN obj \/ obj[k] \notin {"stock", "fund"}}
        \cup {k \in {"itemName"} : IsAdd(r) /\ k \in DOMAIN obj /\ Len(obj[k]) > 500}
\* The body of the answered request fails its schema: it is JSON but no
\* object, or an object with a refused member.
FailsSchema(r) ==
    \/ r.body.kind = "array"
    \/ r.body.kind = "object" /\ RefusedMembers(r) # {}

\* C1: at any time at most one favorite carries a given (userId, itemId,
\* itemType), whatever adds and removes the workers interleave.
C1_Uniqueness ==
    \A tr \in Triples : Cardinality(Holding(favorites, tr)) <= 1

\* C1 happens: of two adds that both passed the existence check, the second
\* insert was refused by the index and one record is stored.
C1_RaceRefused ==
    /\ IsAdd(wire)
    /\ "DuplicateKeyError" \in wire.raised
    /\ \E tr \in Triples : Names(wire, tr) /\ Cardinality(Holding(favorites, tr)) = 1

\* C2: of two adds of one triple served one after the other on a store that
\* answers, the first finding no record of the triple, the first is answered
\* 200 success "Added", the second 200 success "Already in favorites", and
\* exactly one record of the triple is stored.
C2_IdempotentAdd ==
    \A tr \in Triples :
        (/\ IsAdd(last) /\ Names(last, tr) /\ StoreUp(last) /\ last.before = 0
         /\ IsAdd(wire) /\ Names(wire, tr) /\ StoreUp(wire))
        => /\ Says(last, 200, "success", "Added")
           /\ Says(wire, 200, "success", "Already in favorites")
           /\ Cardinality(Holding(favorites, tr)) = 1

\* C2 happens: the second of two such adds has just been answered.
C2_AddedThenAlready ==
    \E tr \in Triples :
        /\ IsAdd(last) /\ Names(last, tr) /\ StoreUp(last) /\ last.before = 0
        /\ IsAdd(wire) /\ Names(wire, tr) /\ StoreUp(wire)

\* C3: an add with a valid body on a store that answers ends in "Added" or
\* "Already in favorites" (200, success), also when it loses a race.
C3_AddNeverFails ==
    (IsAdd(wire) /\ StoreUp(wire) /\ ~FailsSchema(wire))
    => /\ wire.resp.code = 200
       /\ wire.resp.status = "success"
       /\ wire.resp.message \in {"Added", "Already in favorites"}


\* The step puts a response on the wire.
Responds == ~Responded /\ Responded'
InBucket(r, tr) ==
    LET bucket == IF tr.itemType = "stock" THEN r.resp.data[1].stocks
                  ELSE r.resp.data[1].funds
    IN  \E k \in 1..Len(bucket) : bucket[k].id = tr.itemId

\* C4: once a remove of a triple has been answered "Removed" and no add has
\* stored the triple again, a list for its user that the store answers shows
\* no such item under its type, and a remove of the triple that the store
\* answers is refused with 404 "Favorite not found".
C4_RemoveThenAbsent ==
    [][\A tr \in gone :
          /\ (/\ Responds /\ wire'.op = "list" /\ StoreUp(wire')
              /\ wire'.args.userId = tr.userId)
             => (wire'.resp.code = 200 /\ ~InBucket(wire', tr))
          /\ (Responds /\ IsRemove(wire') /\ StoreUp(wire') /\ Names(wire', tr))
             => Says(wire', 404, "error", "Favorite not found")]_vars

\* C4 happens: a second remove of a removed triple has been answered.
C4_SecondRemove ==
    \E tr \in gone : IsRemove(wire) /\ StoreUp(wire) /\ Names(wire, tr)

\* C5: on every store, answering or failing, the REST delete and the RPC
\* remove given the same userId, itemId and itemType leave the same
\* collection and return the same code, status and message.
C5_SameOutcome ==
    \A u \in Users, i \in ItemIds, t \in ItemTypes, up \in BOOLEAN :
        LET rest == remove_favorite(favorites, i, Query(u, t), up)
            rpc == remove_favorite_rpc(favorites, Body(u, i, t, Absent), up)
        IN  /\ rest.favorites = rpc.favorites
            /\ rest.resp[1].code = rpc.resp[1].code
            /\ rest.resp[1].status = rpc.resp[1].status
            /\ rest.resp[1].message = rpc.resp[1].message

\* C6: a request one of whose store calls raised is answered 500 with status
\* "error" and the failure's description as message.
C6_StoreFailureIs500 ==
    (Responded /\ ~StoreUp(wire))
    => Says(wire, 500, "error", StrOf("StoreError"))

\* C7: an add or an RPC remove whose body fails its schema is answered 400
\* with status "error" and a message list for each refused member (for the
\* whole body when it is no object), has made no store call, and leaves the
\* collection as it was.
C7_ValidationShortCircuit ==
    [][(/\ Responds
        /\ wire'.op \in {"add", "add_rpc", "remove_rpc"}
        /\ FailsSchema(wire'))
       => /\ wire'.resp.code = 400
          /\ wire'.resp.status = "error"
          /\ IsSome(wire'.resp.data)
          /\ LET detail == wire'.resp.data[1]
             IN  /\ DOMAIN detail # {}
                 /\ \A k \in DOMAIN detail : Len(detail[k]) > 0
                 /\ wire'.body.kind = "object" => RefusedMembers(wire') \subseteq DOMAIN detail
          /\ wire'.calls = 0
          /\ favorites' = favorites]_vars

\* C7 happens: an add with an itemType outside the schema has been answered.
C7_BadTypeAnswered ==
    /\ IsAdd(wire)
    /\ wire.body.kind = "object"
    /\ "itemType" \in DOMAIN wire.body.obj
    /\ wire.body.obj.itemType = "bond"
    /\ wire.resp.code = 400

RecordSet(favs) == {favs[k] : k \in 1..Len(favs)}
Carries(rec, tr) ==
    rec.userId = tr.userId /\ rec.itemId = tr.itemId /\ rec.itemType = tr.itemType

\* C8: a remove (by either entry point) that the store answers deletes at
\* most one record, and only one that carries the requested triple; it is
\* answered 404 exactly when no record carried the triple, and then the
\* collection is as it was; it is answered "Removed" exactly when one record
\* was deleted; every record of another triple stays as it was.
C8_RemoveEffect ==
    [][\A tr \in Triples :
          (Responds /\ IsRemove(wire') /\ StoreUp(wire') /\ Names(wire', tr))
          => LET deleted == RecordSet(favorites) \ RecordSet(favorites')
             IN  /\ RecordSet(favorites') \subseteq RecordSet(favorites)
                 /\ Len(favorites) - Len(favorites') = Cardinality(deleted)
                 /\ Cardinality(deleted) <= 1
                 /\ \A rec \in deleted : Carries(rec, tr)
                 /\ \A rec \in RecordSet(favorites) : ~Carries(rec, tr) =>
                        rec \in RecordSet(favorites')
                 /\ (wire'.resp.code = 404) = (Holding(favorites, tr) = {})
                 /\ wire'.resp.code = 404 =>
                        (favorites' = favorites /\ wire'.resp.message = "Favorite not found")
                 /\ Says(wire', 200, "success", "Removed") = (Cardinality(deleted) = 1)
                 /\ wire'.resp.code \in {200, 404}]_vars

\* C8 happens: a remove was answered "Removed" while a record of the same
\* user and item under the other type stays stored.
C8_RemovedBesideOther ==
    \E tr \in Triples :
        /\ IsRemove(wire) /\ Names(wire, tr) /\ Says(wire, 200, "success", "Removed")
        /\ \E k \in 1..Len(favorites) :
              /\ favorites[k].userId = tr.userId
              /\ favorites[k].itemId = tr.itemId
              /\ favorites[k].itemType # tr.itemType

\* The entries a list owes for the records of user u whose type is (or, for
\* is = FALSE, is not) "stock", in the order of the collection.
Owed(favs, u, is) ==
    LET mine == SelectSeq(favs, LAMBDA f : f.userId = u /\ (f.itemType = "stock") = is)
    IN  [k \in 1..Len(mine) |->
            [id |-> mine[k].itemId,
             name |-> IF "itemName" \in DOMAIN mine[k] THEN mine[k].itemName ELSE ""]]
Unfiltered(r) == "type" \notin DOMAIN r.args \/ r.args.type = ""

\* C9: a list without a type filter that the store answers gives one entry
\* {id: itemId, name: itemName or ""} under "stocks" for each stock record of
\* the user and one under "funds" for each fund record, and count is the
\* number of these records.
C9_Partition ==
    (wire.op = "list" /\ StoreUp(wire) /\ Unfiltered(wire) /\ wire.resp.code = 200)
    => LET u == wire.args.userId
           n == Cardinality({k \in 1..Len(favorites) :
                    favorites[k].userId = u /\ favorites[k].itemType = "stock"})
           m == Cardinality({k \in 1..Len(favorites) :
                    favorites[k].userId = u /\ favorites[k].itemType = "fund"})
       IN  /\ wire.resp.data[1].stocks = Owed(favorites, u, TRUE)
           /\ wire.resp.data[1].funds = Owed(favorites, u, FALSE)
           /\ Len(wire.resp.data[1].stocks) = n
           /\ Len(wire.resp.data[1].funds) = m
           /\ wire.resp.count = Some(n + m)

\* C9 happens: a list shows a named stock and an unnamed fund.
C9_BothBuckets ==
    /\ wire.op = "list" /\ Unfiltered(wire) /\ wire.resp.code = 200 /\ StoreUp(wire)
    /\ \E k \in 1..Len(wire.resp.data[1].stocks) : wire.resp.data[1].stocks[k].name = "Acme"
    /\ \E k \in 1..Len(wire.resp.data[1].funds) : wire.resp.data[1].funds[k].name = ""

\* C10: the funds a resolve returns (the store answering) have the unique_id
\* of one of the user's fund favorites, and they are no more than these
\* favorites, also when several holding snapshots share a unique_id.
C10_FundsBounded ==
    (wire.op = "funds" /\ StoreUp(wire) /\ wire.resp.code = 200 /\ wire.resp.status = "success")
    => LET mine == {k \in 1..Len(favorites) :
                       /\ favorites[k].userId = wire.args.userId
                       /\ favorites[k].itemType = "fund"}
           records == wire.resp.records[1]
       IN  /\ \A k \in 1..Len(records) :
                 \E f \in mine : favorites[f].itemId = records[k].unique_id
           /\ Len(records) <= Cardinality(mine)
           /\ wire.resp.count = Some(Len(records))


\* The itemIds of the stock favorites of the user a request names.
StockIdsOf(r) ==
    {favorites[k].itemId : k \in {j \in 1..Len(favorites) :
        favorites[j].userId = r.args.userId /\ favorites[j].itemType = "stock"}}
\* 24 hex digits: what the store takes for a native id.
Parses(s) == Len(s) = 24 /\ s \in {StockId, OrphanId}
\* A resolve of stocks that every store call answered.
StocksResolved(r) ==
    r.op = "stocks" /\ StoreUp(r) /\ r.resp.code = 200 /\ r.resp.status = "success"
\* The stocks with one of the ids as _id of the given type, as the response
\* carries them: in the order of the collection, _id as a string.
StocksUnder(type, ids) ==
    LET hits == SelectSeq(stocks, LAMBDA d : d._id.type = type /\ d._id.v \in ids)
    IN  [k \in 1..Len(hits) |->
            [_id |-> [type |-> "str", v |-> hits[k]._id.v],
             name |-> hits[k].name, symbol |-> hits[k].symbol]]

\* C11: when every stock favorite of the user carries an itemId that parses
\* as a native id, a resolve that the store answers returns exactly the
\* stocks whose native id is one of these itemIds, each with _id as the
\* string form of the id, raises nothing for a favorite without a stock, and
\* reports as count the number of records returned, which is at most the
\* number of the user's stock favorites.
C11_StockResolution ==
    (StocksResolved(wire) /\ \A i \in StockIdsOf(wire) : Parses(i))
    => /\ IsSome(wire.resp.records)
       /\ wire.resp.records[1] = StocksUnder("ObjectId", StockIdsOf(wire))
       /\ wire.resp.count = Some(Len(wire.resp.records[1]))
       /\ Len(wire.resp.records[1]) <= Cardinality(StockIdsOf(wire))
       /\ wire.raised = {}

\* C11 happens: two stock favorites whose ids parse, one of them of no
\* stock, resolve to a single record.
C11_OrphanOmitted ==
    /\ StocksResolved(wire)
    /\ StockIdsOf(wire) = {StockId, OrphanId}
    /\ Len(wire.resp.records[1]) = 1

\* C15: a resolve of stocks that the store answers looks the stocks up by
\* native id when every itemId of the user's stock favorites parses, and by
\* raw string for all of them when one does not parse: then no stock stored
\* under a native id is returned, not even for an itemId that parses.
C15_AllOrNothing ==
    (StocksResolved(wire) /\ StockIdsOf(wire) # {})
    => IF \A i \in StockIdsOf(wire) : Parses(i)
       THEN /\ wire.resp.records[1] = StocksUnder("ObjectId", StockIdsOf(wire))
            /\ "InvalidId" \notin wire.raised
       ELSE /\ wire.resp.records[1] = StocksUnder("str", StockIdsOf(wire))
            /\ "InvalidId" \in wire.raised

\* C15 happens: one itemId that parses beside one that does not, and the
\* resolve returns the stock stored under the string only.
C15_FellBack ==
    /\ StocksResolved(wire)
    /\ StockIdsOf(wire) = {StockId, FundKey}
    /\ Len(wire.resp.records[1]) = 1
    /\ wire.resp.records[1][1].name = "Imported Stock"


\* The query string lacks the parameter, or gives it empty.
Lacks(r, k) == k \notin DOMAIN r.args \/ r.args[k] = ""

\* C12: a list, a resolve of stocks or a resolve of funds without a
\* non-empty userId, and a REST remove without a non-empty userId or without
\* a non-empty type, is answered 400 with status "error" and a message, has
\* made no store call, and leaves favorites, stocks and fund holdings as
\* they were.
C12_MissingParameters ==
    [][(/\ Responds
        /\ \/ wire'.op \in {"list", "stocks", "funds"} /\ Lacks(wire', "userId")
           \/ wire'.op = "remove" /\ (Lacks(wire', "userId") \/ Lacks(wire', "type")))
       => /\ wire'.resp.code = 400
          /\ wire'.resp.status = "error"
          /\ wire'.resp.message \in {"userId required", "userId and type required"}
          /\ wire'.calls = 0
          /\ wire'.raised = {}
          /\ favorites' = favorites
          /\ stocks' = stocks
          /\ fund_holdings' = fund_holdings]_vars

\* C12 happens: a REST remove with a userId and an empty type was refused.
C12_TypeMissing ==
    /\ wire.op = "remove"
    /\ ~Lacks(wire, "userId")
    /\ "type" \in DOMAIN wire.args /\ wire.args.type = ""
    /\ wire.resp.code = 400

\* C14: every stored favorite has itemType "stock" or "fund" and a non-empty
\* userId and itemId, whatever requests were served; so the funds of a list
\* are entries of records whose itemType is "fund", one for each.
C14_ItemTypeInvariant ==
    /\ \A k \in 1..Len(favorites) :
          /\ favorites[k].itemType \in {"stock", "fund"}
          /\ favorites[k].userId \notin {"", Absent}
          /\ favorites[k].itemId \notin {"", Absent}
    /\ (wire.op = "list" /\ StoreUp(wire) /\ wire.resp.code = 200)
       => Len(wire.resp.data[1].funds) =
             Cardinality({k \in 1..Len(favorites) :
                /\ favorites[k].userId = wire.args.userId
                /\ favorites[k].itemType = "fund"
                /\ (Lacks(wire, "type") \/ wire.args.type = "fund")})

\* C14 happens: with a favorite stored, an add of another itemType was
\* refused.
C14_OtherTypeRefused ==
    /\ Len(favorites) > 0
    /\ IsAdd(wire)
    /\ wire.body.kind = "object"
    /\ "itemType" \in DOMAIN wire.body.obj
    /\ wire.body.obj.itemType \in {"bond", ""}
    /\ wire.resp.code = 400


\* C13: no step changes a stored favorite: a record that is still stored
\* after a step (by its id, or by its triple) has the fields it had before,
\* createdAt among them; and an add answered "Already in favorites" has only
\* read, leaving the collection as it was, also when it carries another
\* itemName than the stored one.
C13_WriteOnce ==
    [][/\ \A k \in 1..Len(favorites), j \in 1..Len(favorites') :
             (\/ favorites'[j]._id = favorites[k]._id
              \/ /\ favorites'[j].userId = favorites[k].userId
                 /\ favorites'[j].itemId = favorites[k].itemId
                 /\ favorites'[j].itemType = favorites[k].itemType)
             => favorites'[j] = favorites[k]
       /\ (Responds /\ IsAdd(wire') /\ wire'.resp.message = "Already in favorites")
          => (favorites' = favorites /\ wire'.calls = 1)]_vars

\* C13 happens: an add carrying the name "Acme" was answered "Already in
\* favorites" and the stored record still has its empty name.
C13_OtherNameIgnored ==
    /\ IsAdd(wire)
    /\ wire.resp.message = "Already in favorites"
    /\ "itemName" \in DOMAIN wire.body.obj
    /\ wire.body.obj.itemName = "Acme"
    /\ \E k \in 1..Len(favorites) :
          /\ Names(wire, [userId |-> favorites[k].userId, itemId |-> favorites[k].itemId,
                          itemType |-> favorites[k].itemType])
          /\ favorites[k].itemName = ""
          /\ favorites[k].createdAt = 1


\* C16: two removes of a triple, by either entry point, that both arrived
\* while its record was stored and were answered one right after the other
\* (so the second was in flight when the first deleted), the store answering
\* both: one is answered 200 "Removed", the other 404 "Favorite not found",
\* and no record of the triple is left.
C16_ConcurrentRemoves ==
    \A tr \in Triples :
        (/\ IsRemove(last) /\ Names(last, tr) /\ StoreUp(last) /\ last.before = 1
         /\ IsRemove(wire) /\ Names(wire, tr) /\ StoreUp(wire) /\ wire.before = 1)
        => /\ \/ /\ Says(last, 200, "success", "Removed")
                 /\ Says(wire, 404, "error", "Favorite not found")
              \/ /\ Says(last, 404, "error", "Favorite not found")
                 /\ Says(wire, 200, "success", "Removed")
           /\ Holding(favorites, tr) = {}

\* C16 happens: a REST remove and an RPC remove of one stored triple were in
\* flight together and both have been answered.
C16_BothAnswered ==
    \E tr \in Triples :
        /\ IsRemove(last) /\ Names(last, tr) /\ StoreUp(last) /\ last.before = 1
        /\ IsRemove(wire) /\ Names(wire, tr) /\ StoreUp(wire) /\ wire.before = 1
        /\ last.op # wire.op


\* The user a request is made for.
UserOf(r) == IF IsAdd(r) \/ r.op = "remove_rpc" THEN r.body.obj.userId ELSE r.args.userId
\* The records of a collection that belong to other users than u, in order.
OthersOf(favs, u) == SelectSeq(favs, LAMBDA f : f.userId # u)

\* C17: a step that changes the collection is the answer to an add or a
\* remove, and it leaves the records of every other user than the request's
\* as they were; and each entry of a list for user u (the store answering)
\* is built from a record of u of the bucket's type, one entry per record.
C17_PerUserIsolation ==
    [][/\ favorites' # favorites
          => /\ Responds
             /\ IsAdd(wire') \/ IsRemove(wire')
             /\ OthersOf(favorites', UserOf(wire')) = OthersOf(favorites, UserOf(wire'))
       /\ (Responds /\ wire'.op = "list" /\ StoreUp(wire') /\ wire'.resp.code = 200)
          => LET u == wire'.args.userId
                 mine == {k \in 1..Len(favorites) : favorites[k].userId = u}
                 From(e, stock) ==
                     \E k \in mine : /\ favorites[k].itemId = e.id
                                     /\ favorites[k].itemName = e.name
                                     /\ (favorites[k].itemType = "stock") = stock
                 data == wire'.resp.data[1]
             IN  /\ \A j \in 1..Len(data.stocks) : From(data.stocks[j], TRUE)
                 /\ \A j \in 1..Len(data.funds) : From(data.funds[j], FALSE)
                 /\ Len(data.stocks) + Len(data.funds) <= Cardinality(mine)]_vars

\* C17 happens: a remove of one user's favorite was answered "Removed" while
\* another user holds the same item under the same type.
C17_NeighbourKept ==
    \E tr \in Triples :
        /\ IsRemove(wire) /\ Names(wire, tr) /\ Says(wire, 200, "success", "Removed")
        /\ \E k \in 1..Len(favorites) :
              /\ favorites[k].userId # tr.userId
              /\ favorites[k].itemId = tr.itemId
              /\ favorites[k].itemType = tr.itemType

\* C18: with the requests served one after the other, an add (the store
\* answering) of a triple whose remove was answered "Removed", and that no
\* add has stored since, is answered 200 "Added" and leaves one record of
\* the triple; a remove answered "Removed" leaves none, and an add answered
\* with success leaves one.
C18_AddAfterRemove ==
    [][\A tr \in Triples :
          /\ (tr \in gone /\ Responds /\ IsAdd(wire') /\ Names(wire', tr) /\ StoreUp(wire'))
             => /\ Says(wire', 200, "success", "Added")
                /\ Cardinality(Holding(favorites', tr)) = 1
          /\ (Responds /\ IsRemove(wire') /\ Names(wire', tr)
                /\ Says(wire', 200, "success", "Removed"))
             => Holding(favorites', tr) = {}
          /\ (Responds /\ IsAdd(wire') /\ Names(wire', tr) /\ wire'.resp.status = "success")
             => Cardinality(Holding(favorites', tr)) = 1]_vars

\* C18 happens: the remove of a triple was answered "Removed" and the add of
\* the triple that followed it has been answered.
C18_AddedAgain ==
    \E tr \in Triples :
        /\ IsRemove(last) /\ Names(last, tr) /\ Says(last, 200, "success", "Removed")
        /\ IsAdd(wire) /\ Names(wire, tr) /\ StoreUp(wire)
        /\ nextOid = 2

====
